---- MODULE Spec2Model ----
(***************************************************************************)
(* A model of the address book of src/main.py: Phone validation, the      *)
(* Record phone list, the AddressBook dictionary, the upcoming-birthday   *)
(* computation and the add-contact flow of the Bot menu loop.             *)
(*                                                                         *)
(* A Python str is a tuple of characters; a character is a one-token      *)
(* string ("7", "a", "."), and "sup2" stands for U+00B2 SUPERSCRIPT TWO.  *)
(***************************************************************************)
EXTENDS Integers, Sequences, FiniteSets, TLC

VARIABLES
    phones,     \* Record.phones of the record the phone operations act on
    recOp,      \* the last Record operation: arguments, outcome, list before
    data,       \* AddressBook.data: the dict, as its items in insertion order
    bookOp,     \* the last AddressBook operation: arguments, outcome, dict before
    latest,     \* history: per name, the record last added and not deleted since
    clock,      \* the day datetime.today().date() returns
    pc,         \* where Bot.run / Bot.add_user stands
    pending,    \* add_user's locals: name, dob, phone
    shown,      \* the lines the UI displayed in the last step
    file        \* addressbook.pkl: <<>> when absent, else <<the pickled dict>>

vars == <<phones, recOp, data, bookOp, latest, clock, pc, pending, shown, file>>

botVars == <<pc, pending, shown, file>>

----------------------------------------------------------------------------
(* Bounds of the model.                                                    *)

MaxPhones == 3
MaxRecords == 2
TodaySpan == 78

----------------------------------------------------------------------------
(* Characters and strings.                                                 *)

AsciiDigits == <<"0", "1", "2", "3", "4", "5", "6", "7", "8", "9">>

IsAsciiDigit(c) == \E i \in 1..Len(AsciiDigits) : AsciiDigits[i] = c

DigitVal(c) == (CHOOSE i \in 1..Len(AsciiDigits) : AsciiDigits[i] = c) - 1

\* Characters outside 0-9 that str.isdigit() accepts (Numeric_Type=Digit).
OtherDigitChars == {"sup2"}

\* str.isdigit() of one character.
CharIsDigit(c) == IsAsciiDigit(c) \/ c \in OtherDigitChars

\* str.isdigit(): every character is a digit and there is at least one.
StrIsDigit(s) == Len(s) > 0 /\ \A i \in 1..Len(s) : CharIsDigit(s[i])

\* The outcomes of an operation: it returned, or it raised.
Ok == "ok"
ErrTenDigits == "ValueError: phone number must contain 10 digits"
ErrPhoneNotFound == "ValueError: phone number not found"
ErrContactNotFound == "KeyError: contact not found"
ErrDateFormat == "ValueError: wrong date format, use DD.MM.YYYY"
ErrDayOutOfRange == "ValueError: day is out of range for month"
ErrNoneBirthday == "AttributeError: NoneType has no attribute value"

----------------------------------------------------------------------------
(* datetime.date: a date is [year, month, day]; the proleptic Gregorian    *)
(* ordinal, weekday(), replace(year=...), strptime and strftime.           *)

IsLeap(y) == y % 4 = 0 /\ (y % 100 # 0 \/ y % 400 = 0)

DaysInMonth(y, m) ==
    IF m = 2 THEN (IF IsLeap(y) THEN 29 ELSE 28)
    ELSE IF m \in {4, 6, 9, 11} THEN 30 ELSE 31

IsDate(y, m, d) ==
    /\ y \in 1..9999
    /\ m \in 1..12
    /\ d \in 1..DaysInMonth(y, m)

MkDate(y, m, d) == [year |-> y, month |-> m, day |-> d]

DaysBeforeYear(y) ==
    (y - 1) * 365 + (y - 1) \div 4 - (y - 1) \div 100
        + (y - 1) \div 400

DaysBeforeMonth(y, m) ==
    <<0, 31, 59, 90, 120, 151, 181, 212, 243, 273, 304, 334>>[m]
        + (IF m > 2 /\ IsLeap(y) THEN 1 ELSE 0)

\* date.toordinal()
ToOrdinal(dt) ==
    DaysBeforeYear(dt.year) + DaysBeforeMonth(dt.year, dt.month) + dt.day

\* date.fromordinal(n), which date + timedelta goes through.
FromOrdinal(n) ==
    LET e == (n * 400) \div 146097 + 1
        y == CHOOSE yy \in (e - 1)..(e + 1) :
                 DaysBeforeYear(yy) < n /\ n <= DaysBeforeYear(yy + 1)
        r == n - DaysBeforeYear(y)
        m == CHOOSE mm \in 1..12 :
                 /\ DaysBeforeMonth(y, mm) < r
                 /\ r <= DaysBeforeMonth(y, mm) + DaysInMonth(y, mm)
    IN  MkDate(y, m, r - DaysBeforeMonth(y, m))

\* date.weekday(): Monday is 0, Sunday is 6.
Weekday(dt) == (ToOrdinal(dt) + 6) % 7

\* d1 < d2 on dates.
DateLess(d1, d2) ==
    \/ d1.year < d2.year
    \/ d1.year = d2.year /\ d1.month < d2.month
    \/ d1.year = d2.year /\ d1.month = d2.month /\ d1.day < d2.day

\* date.replace(year=y): the date, or ValueError when the day does not exist.
ReplaceYear(dt, y) ==
    IF IsDate(y, dt.month, dt.day)
    THEN [outcome |-> Ok, date |-> MkDate(y, dt.month, dt.day)]
    ELSE [outcome |-> ErrDayOutOfRange, date |-> dt]

\* The number a string of ASCII digits denotes.
RECURSIVE DigitsToNat(_)
DigitsToNat(s) ==
    IF Len(s) = 0 THEN 0
    ELSE 10 * DigitsToNat(SubSeq(s, 1, Len(s) - 1)) + DigitVal(s[Len(s)])

AllAsciiDigits(s) == \A i \in 1..Len(s) : IsAsciiDigit(s[i])

\* The directive %d: 3[0-1] | [1-2]\d | 0[1-9] | [1-9] | " "[1-9].
MatchesDay(s) ==
    \/ Len(s) = 2 /\ AllAsciiDigits(s) /\ DigitsToNat(s) \in 1..31
    \/ Len(s) = 1 /\ AllAsciiDigits(s) /\ DigitsToNat(s) \in 1..9
    \/ Len(s) = 2 /\ s[1] = " " /\ IsAsciiDigit(s[2]) /\ DigitVal(s[2]) \in 1..9

\* The directive %m: 1[0-2] | 0[1-9] | [1-9].
MatchesMonth(s) ==
    \/ Len(s) = 2 /\ AllAsciiDigits(s) /\ DigitsToNat(s) \in 1..12
    \/ Len(s) = 1 /\ AllAsciiDigits(s) /\ DigitsToNat(s) \in 1..9

\* The directive %Y: four digits.
MatchesYear(s) == Len(s) = 4 /\ AllAsciiDigits(s)

\* datetime.strptime(s, "%d.%m.%Y").date(): the date, or ValueError.
Strptime(s) ==
    LET dots == {i \in 1..Len(s) : s[i] = "."}
        bad == [outcome |-> ErrDateFormat, date |-> MkDate(0, 0, 0)]
    IN  IF Cardinality(dots) # 2 THEN bad
        ELSE LET i1 == CHOOSE i \in dots : \A j \in dots : i <= j
                 i2 == CHOOSE i \in dots : \A j \in dots : j <= i
                 ds == SubSeq(s, 1, i1 - 1)
                 dd == IF Len(ds) = 2 /\ ds[1] = " " THEN SubSeq(ds, 2, 2) ELSE ds
                 ms == SubSeq(s, i1 + 1, i2 - 1)
                 ys == SubSeq(s, i2 + 1, Len(s))
             IN  IF MatchesDay(ds) /\ MatchesMonth(ms) /\ MatchesYear(ys)
                    /\ IsDate(DigitsToNat(ys), DigitsToNat(ms), DigitsToNat(dd))
                 THEN [outcome |-> Ok,
                       date |-> MkDate(DigitsToNat(ys), DigitsToNat(ms),
                                       DigitsToNat(dd))]
                 ELSE bad

\* n as w zero-padded ASCII digits.
RECURSIVE Pad(_, _)
Pad(n, w) ==
    IF w = 0 THEN <<>>
    ELSE Append(Pad(n \div 10, w - 1), AsciiDigits[(n % 10) + 1])

\* date.strftime("%Y.%m.%d")
Strftime(dt) ==
    Pad(dt.year, 4) \o <<".">> \o Pad(dt.month, 2) \o <<".">> \o Pad(dt.day, 2)

\* The text "DD.MM.YYYY" of a day, a month and a year.
DateText(d, m, y) ==
    Pad(d, 2) \o <<".">> \o Pad(m, 2) \o <<".">> \o Pad(y, 4)

\* Birthday.__init__: the value is kept when strptime accepts it.
Birthday(value) ==
    IF Strptime(value).outcome = Ok
    THEN [outcome |-> Ok, value |-> value]
    ELSE [outcome |-> ErrDateFormat, value |-> <<>>]

----------------------------------------------------------------------------
(* Phone and Record.                                                       *)

PhoneLen == 10

\* Phone.validate: TRUE when it returns, FALSE when it raises ValueError.
Validate(value) == ~(Len(value) # PhoneLen \/ ~StrIsDigit(value))

\* Record.add_phone on a phone list: the list after, and the outcome.
AddPhone(ps, phone) ==
    IF Validate(phone)
    THEN [phones |-> Append(ps, phone), outcome |-> Ok]
    ELSE [phones |-> ps, outcome |-> ErrTenDigits]

\* A faulty remove_phone: only the first entry equal to phone goes.
RemoveFirstOnly(ps, phone) ==
    IF \E i \in 1..Len(ps) : ps[i] = phone
    THEN LET k == CHOOSE i \in 1..Len(ps) :
                      ps[i] = phone /\ \A j \in 1..(i - 1) : ps[j] # phone
         IN  SubSeq(ps, 1, k - 1) \o SubSeq(ps, k + 1, Len(ps))
    ELSE ps

\* Record.remove_phone on a phone list: every entry equal to phone goes.
RemovePhone(ps, phone) ==
    LET Keep(p) == p # phone
    IN  SelectSeq(ps, Keep)

\* A faulty edit_phone: it validates new_phone before it removes old_phone.
EditPhoneAtomic(ps, old_phone, new_phone) ==
    IF ~(\E i \in 1..Len(ps) : ps[i] = old_phone)
    THEN [phones |-> ps, outcome |-> ErrPhoneNotFound]
    ELSE IF Validate(new_phone)
         THEN [phones |-> Append(RemovePhone(ps, old_phone), new_phone),
               outcome |-> Ok]
         ELSE [phones |-> ps, outcome |-> ErrTenDigits]

\* A faulty edit_phone: it does not test that old_phone is stored.
EditPhoneNoCheck(ps, old_phone, new_phone) ==
    AddPhone(RemovePhone(ps, old_phone), new_phone)

\* Record.edit_phone on a phone list: the membership test, then remove_phone,
\* then add_phone, whose exception leaves the removal done.
EditPhone(ps, old_phone, new_phone) ==
    IF ~(\E i \in 1..Len(ps) : ps[i] = old_phone)
    THEN [phones |-> ps, outcome |-> ErrPhoneNotFound]
    ELSE AddPhone(RemovePhone(ps, old_phone), new_phone)

\* Record.find_phone on a phone list: the first match's value, or the raise.
FindPhone(ps, phone) ==
    IF \E i \in 1..Len(ps) : ps[i] = phone
    THEN [outcome |-> Ok,
          ret |-> <<ps[CHOOSE i \in 1..Len(ps) :
                          ps[i] = phone /\ \A j \in 1..(i - 1) : ps[j] # phone]>>]
    ELSE [outcome |-> ErrPhoneNotFound, ret |-> <<>>]

\* The strings the phone operations are called with.
P1 == <<"1", "1", "1", "2", "2", "2", "3", "3", "3", "3">>
P2 == <<"4", "4", "4", "5", "5", "5", "6", "6", "6", "6">>
PSup == <<"1", "2", "3", "4", "5", "6", "7", "8", "9", "sup2">>
PShort == <<"1", "2", "3", "4", "5">>
PLong == <<"1", "2", "3", "4", "5", "6", "7", "8", "9", "0", "1">>
PAlpha == <<"1", "2", "3", "4", "5", "a", "b", "c", "d", "e">>
PEmpty == <<>>

PhoneInputs == {P1, P2, PSup, PShort, PLong, PAlpha, PEmpty}

NoRecOp == [op |-> "none", arg |-> <<>>, arg2 |-> <<>>, outcome |-> Ok,
            ret |-> <<>>, pre |-> <<>>]

\* Record.add_phone(Phone(p))
add_phone(p) ==
    /\ Len(phones) < MaxPhones
    /\ LET r == AddPhone(phones, p)
       IN  /\ phones' = r.phones
           /\ recOp' = [op |-> "add_phone", arg |-> p, arg2 |-> <<>>,
                        outcome |-> r.outcome, ret |-> <<>>, pre |-> phones]
    /\ UNCHANGED <<data, bookOp, latest, clock, botVars>>

\* Record.remove_phone(p)
remove_phone(p) ==
    /\ phones' = RemovePhone(phones, p)
    /\ recOp' = [op |-> "remove_phone", arg |-> p, arg2 |-> <<>>,
                 outcome |-> Ok, ret |-> <<>>, pre |-> phones]
    /\ UNCHANGED <<data, bookOp, latest, clock, botVars>>

\* Record.edit_phone(old, new)
edit_phone(old, new) ==
    /\ LET r == EditPhone(phones, old, new)
       IN  /\ phones' = r.phones
           /\ recOp' = [op |-> "edit_phone", arg |-> old, arg2 |-> new,
                        outcome |-> r.outcome, ret |-> <<>>, pre |-> phones]
    /\ UNCHANGED <<data, bookOp, latest, clock, botVars>>

\* Record.find_phone(p)
find_phone(p) ==
    /\ LET r == FindPhone(phones, p)
       IN  recOp' = [op |-> "find_phone", arg |-> p, arg2 |-> <<>>,
                     outcome |-> r.outcome, ret |-> r.ret, pre |-> phones]
    /\ UNCHANGED <<phones, data, bookOp, latest, clock, botVars>>

\* The first day datetime.today() ranges over is 19.12.2023; TodaySpan days
\* from it reach past 29.02.2024.
TodayFirst == ToOrdinal(MkDate(2023, 12, 19))

Todays == {FromOrdinal(TodayFirst + k) : k \in 0..(TodaySpan - 1)}

NoBookOp == [op |-> "none"]

\* The names records are built from.
Anna == <<"A", "n", "n", "a">>
Bob == <<"B", "o", "b">>
Nona == <<"N", "o", "n", "a">>
Names == {Anna, Bob, Nona}

NoneAdded == [n \in Names |-> <<>>]

InitRecord ==
    /\ phones = <<>>
    /\ recOp = NoRecOp
    /\ data = <<>>
    /\ bookOp = NoBookOp
    /\ latest = NoneAdded
    /\ clock = FromOrdinal(TodayFirst)
    /\ pc = "idle"
    /\ pending = <<>>
    /\ shown = <<>>
    /\ file = <<>>

NextRecord ==
    \/ \E p \in PhoneInputs : add_phone(p)
    \/ \E p \in PhoneInputs : remove_phone(p)
    \/ \E old \in PhoneInputs, new \in PhoneInputs : edit_phone(old, new)
    \/ \E p \in PhoneInputs : find_phone(p)

SpecRecord == InitRecord /\ [][NextRecord]_vars

----------------------------------------------------------------------------
(* AddressBook.  data is the dict as the sequence of its values in         *)
(* insertion order; a value is a Record [name, phones, birthday], stored   *)
(* under the key record.name.value; birthday is <<>> for None and          *)
(* <<value>> for a Birthday.                                               *)

MkRecord(name, ps, birthday) ==
    [name |-> name, phones |-> ps, birthday |-> birthday]

HasKey(d, name) == \E i \in 1..Len(d) : d[i].name = name

IndexOf(d, name) == CHOOSE i \in 1..Len(d) : d[i].name = name

\* A faulty add_record: it never replaces the entry of the same name.
AddRecordAppendOnly(d, record) == Append(d, record)

\* AddressBook.add_record: self.data[record.name.value] = record

AddRecord(d, record) ==
    IF HasKey(d, record.name)
    THEN [d EXCEPT ![IndexOf(d, record.name)] = record]
    ELSE Append(d, record)

\* AddressBook.find
Find(d, name) ==
    IF ~HasKey(d, name)
    THEN [outcome |-> ErrContactNotFound, ret |-> <<>>]
    ELSE [outcome |-> Ok, ret |-> <<d[IndexOf(d, name)]>>]

\* A faulty delete: a name not stored is not an error.
DeleteSilent(d, name) ==
    LET Keep(r) == r.name # name
    IN  [outcome |-> Ok, data |-> SelectSeq(d, Keep)]

\* AddressBook.delete
Delete(d, name) ==
    IF ~HasKey(d, name)
    THEN [outcome |-> ErrContactNotFound, data |-> d]
    ELSE LET k == IndexOf(d, name)
         IN  [outcome |-> Ok,
              data |-> SubSeq(d, 1, k - 1) \o SubSeq(d, k + 1, Len(d))]

WindowDays == 7
Saturday == 5

\* A faulty weekend shift: none.
WeekendShiftNone(days, birthday) == days

\* The weekend shift of get_upcoming_birthdays: days_until_birthday after
\* "if birthday.weekday() >= 5: days_until_birthday += 7 - birthday.weekday()".

WeekendShift(days, birthday) ==
    IF Weekday(birthday) >= Saturday
    THEN days + (7 - Weekday(birthday))
    ELSE days

\* The window test "0 <= days_until_birthday <= 7".
InWindow(days) == 0 <= days /\ days <= WindowDays

\* One pass of the loop body of get_upcoming_birthdays for one record:
\* the entries it appends (none or one), or the exception it raises.
UpcomingOf(record, today) ==
    IF record.birthday = <<>>
    THEN [outcome |-> Ok, entries |-> <<>>]
    ELSE
      LET parsed == Strptime(record.birthday[1]).date
          first == ReplaceYear(parsed, today.year)
      IN  IF first.outcome # Ok
          THEN [outcome |-> first.outcome, entries |-> <<>>]
          ELSE
            LET second == IF DateLess(first.date, today)
                          THEN ReplaceYear(first.date, today.year + 1)
                          ELSE first
            IN  IF second.outcome # Ok
                THEN [outcome |-> second.outcome, entries |-> <<>>]
                ELSE
                  LET birthday == second.date
                      days == ToOrdinal(birthday) - ToOrdinal(today)
                  IN  IF InWindow(days)
                      THEN [outcome |-> Ok,
                            entries |->
                              <<[name |-> record.name,
                                 congratulation_date |->
                                   Strftime(FromOrdinal(
                                     ToOrdinal(today)
                                       + WeekendShift(days, birthday)))]>>]
                      ELSE [outcome |-> Ok, entries |-> <<>>]

\* The loop of get_upcoming_birthdays over data.values() from item i on,
\* with upcoming_birthdays = acc: the list returned, or the exception that
\* ends the call.
RECURSIVE UpcomingLoop(_, _, _, _)
UpcomingLoop(d, today, i, acc) ==
    IF i > Len(d)
    THEN [outcome |-> Ok, ret |-> acc]
    ELSE LET one == UpcomingOf(d[i], today)
         IN  IF one.outcome # Ok
             THEN [outcome |-> one.outcome, ret |-> <<>>]
             ELSE UpcomingLoop(d, today, i + 1, acc \o one.entries)

\* AddressBook.get_upcoming_birthdays with datetime.today().date() = today.
GetUpcomingBirthdays(d, today) == UpcomingLoop(d, today, 1, <<>>)

\* Month/day pairs of the birthdays: the turn of the year (every weekday),
\* the end of February with the 29th, the start of March, and a far day.
BirthdayMonthDays ==
    {<<12, d>> : d \in 28..31} \cup {<<1, d>> : d \in 1..7}
        \cup {<<2, d>> : d \in 26..29} \cup {<<3, d>> : d \in 1..3}
        \cup {<<6, 15>>}

\* No birthday, or one of them in the leap year 2000.
BirthdayValues ==
    {<<>>} \cup {<<DateText(md[2], md[1], 2000)>> : md \in BirthdayMonthDays}

\* What stands in for a Record's birthday in the AddressBook operations.
FewBirthdayValues == {<<>>, <<DateText(15, 6, 1985)>>}

BookRecords ==
    {MkRecord(n, ps, b) : n \in Names, ps \in {<<>>, <<P1>>},
                          b \in FewBirthdayValues}

\* AddressBook.add_record(record)
add_record(record) ==
    /\ HasKey(data, record.name) \/ Len(data) < MaxRecords
    /\ data' = AddRecord(data, record)
    /\ bookOp' = [op |-> "add_record", record |-> record, pre |-> data]
    /\ latest' = [latest EXCEPT ![record.name] = <<record>>]
    /\ UNCHANGED <<phones, recOp, clock, botVars>>

\* AddressBook.find(name)
find(name) ==
    /\ LET r == Find(data, name)
       IN  bookOp' = [op |-> "find", name |-> name, outcome |-> r.outcome,
                      ret |-> r.ret, pre |-> data]
    /\ UNCHANGED <<phones, recOp, data, latest, clock, botVars>>

\* AddressBook.delete(name)
delete(name) ==
    /\ LET r == Delete(data, name)
       IN  /\ data' = r.data
           /\ bookOp' = [op |-> "delete", name |-> name,
                         outcome |-> r.outcome, pre |-> data]
    /\ latest' = [latest EXCEPT ![name] = <<>>]
    /\ UNCHANGED <<phones, recOp, clock, botVars>>

\* AddressBook.get_upcoming_birthdays(), which reads the clock
get_upcoming_birthdays ==
    /\ LET r == GetUpcomingBirthdays(data, clock)
       IN  bookOp' = [op |-> "get_upcoming_birthdays", today |-> clock,
                      outcome |-> r.outcome, ret |-> r.ret]
    /\ UNCHANGED <<phones, recOp, data, latest, clock, botVars>>

InitBook ==
    /\ phones = <<>>
    /\ recOp = NoRecOp
    /\ data = <<>>
    /\ bookOp = NoBookOp
    /\ latest = NoneAdded
    /\ clock = FromOrdinal(TodayFirst)
    /\ pc = "idle"
    /\ pending = <<>>
    /\ shown = <<>>
    /\ file = <<>>

NextBook ==
    \/ \E r \in BookRecords : add_record(r)
    \/ \E n \in Names : find(n)
    \/ \E n \in Names : delete(n)

SpecBook == InitBook /\ [][NextBook]_vars

\* The directories get_upcoming_birthdays is run on: empty, one record, or
\* Anna's record added before Bob's, each with a birthday or none.
Directories ==
    {<<>>}
    \cup {<<MkRecord(n, <<P1>>, b)>> : n \in Names, b \in BirthdayValues}
    \cup {<<MkRecord(ns[1], <<P1>>, b1), MkRecord(ns[2], <<P1>>, b2)>> :
            ns \in {<<Anna, Bob>>},
            b1 \in BirthdayValues, b2 \in BirthdayValues}

InitBirthdays ==
    /\ phones = <<>>
    /\ recOp = NoRecOp
    /\ data \in Directories
    /\ bookOp = NoBookOp
    /\ latest = [n \in Names |-> Find(data, n).ret]
    /\ clock \in Todays
    /\ pc = "idle"
    /\ pending = <<>>
    /\ shown = <<>>
    /\ file = <<>>

NextBirthdays == get_upcoming_birthdays

SpecBirthdays == InitBirthdays /\ [][NextBirthdays]_vars

----------------------------------------------------------------------------
(* Bot: the menu loop of Bot.run and the prompts of Bot.add_user.  pc is   *)
(* "menu" at the choice prompt, "dob" and "phone" at add_user's prompts,   *)
(* "exited" after choice 7 and "crashed" when an exception left run().    *)

Lowers == <<"a", "b", "n", "o">>
Uppers == <<"A", "B", "N", "O">>

UpperOf(c) ==
    IF \E i \in 1..Len(Lowers) : Lowers[i] = c
    THEN Uppers[CHOOSE i \in 1..Len(Lowers) : Lowers[i] = c]
    ELSE c

LowerOf(c) ==
    IF \E i \in 1..Len(Uppers) : Uppers[i] = c
    THEN Lowers[CHOOSE i \in 1..Len(Uppers) : Uppers[i] = c]
    ELSE c

\* str.capitalize()
Capitalize(s) ==
    [i \in 1..Len(s) |-> IF i = 1 THEN UpperOf(s[i]) ELSE LowerOf(s[i])]

\* sep.join(items)
RECURSIVE Join(_, _)
Join(sep, items) ==
    IF Len(items) = 0 THEN <<>>
    ELSE IF Len(items) = 1 THEN items[1]
    ELSE items[1] \o sep \o Join(sep, Tail(items))

\* Record.__str__
RecordStr(r) ==
    <<"Name: ">> \o r.name \o <<", Phones: ">> \o Join(<<"; ">>, r.phones)
        \o <<", Birthday: ">>
        \o (IF r.birthday = <<>> THEN <<"None">> ELSE r.birthday[1])

MsgAdded == <<"contact added">>
MsgNotFound == <<"contact not found">>
MsgRetryDate == <<"please enter the date in the right format">>
MsgBirthdaySet == <<"birthday added/updated">>
MsgNoContacts == <<"no contacts">>
MsgNoBirthdays == <<"no upcoming birthdays">>
MsgWrongChoice == <<"wrong choice">>
MsgExit == <<"exiting">>
MsgError(e) == <<"Error: ", e>>
Traceback(e) == <<"Traceback: ", e>>

\* What the user types at the prompts.
NameInputs == {<<"a", "n", "n", "a">>, <<"B", "O", "B">>}
DobInputs == {DateText(15, 6, 1985), DateText(29, 2, 2000),
              DateText(31, 2, 2000), <<"n", "o">>}
BotPhoneInputs == {P1, P2, PShort, PAlpha}

\* Choice 1: the name prompt, then add_user starts.
choose_add(name_input) ==
    /\ pc = "menu"
    /\ pending' = [name |-> Capitalize(name_input), dob |-> <<>>,
                   phone |-> <<>>]
    /\ pc' = "dob"
    /\ shown' = <<>>
    /\ UNCHANGED <<phones, recOp, data, bookOp, latest, clock, file>>

\* add_user's first loop: one answer to the date prompt.
enter_dob(dob_input) ==
    /\ pc = "dob"
    /\ LET b == Birthday(dob_input)
       IN  IF b.outcome = Ok
           THEN /\ pending' = [pending EXCEPT !.dob = <<b.value>>]
                /\ pc' = "phone"
                /\ shown' = <<>>
           ELSE /\ shown' = <<MsgError(b.outcome), MsgRetryDate>>
                /\ UNCHANGED <<pending, pc>>
    /\ UNCHANGED <<phones, recOp, data, bookOp, latest, clock, file>>

\* add_user's second loop and the rest of add_user: Phone(phone_input) never
\* raises, so the loop ends at the first answer; record.add_phone then
\* validates, and its ValueError is caught neither by add_user nor by run.
enter_phone(phone_input) ==
    /\ pc = "phone"
    /\ LET r == AddPhone(<<>>, phone_input)
       IN  IF r.outcome = Ok
           THEN /\ data' = AddRecord(data, MkRecord(pending.name, r.phones,
                                                    pending.dob))
                /\ shown' = <<MsgAdded>>
                /\ pc' = "menu"
                /\ pending' = <<>>
           ELSE /\ pending' = [pending EXCEPT !.phone = <<phone_input>>]
                /\ shown' = <<Traceback(r.outcome)>>
                /\ pc' = "crashed"
                /\ UNCHANGED data
    /\ UNCHANGED <<phones, recOp, bookOp, latest, clock, file>>

\* Choice 2: get_user_info
show_info(name_input) ==
    /\ pc = "menu"
    /\ LET r == Find(data, Capitalize(name_input))
       IN  shown' = IF r.outcome = Ok THEN <<RecordStr(r.ret[1])>>
                    ELSE <<MsgNotFound>>
    /\ UNCHANGED <<phones, recOp, data, bookOp, latest, clock, pc, pending, file>>

\* Choice 3: list_all_users
list_all ==
    /\ pc = "menu"
    /\ shown' = IF Len(data) > 0
                THEN <<Join(<<"\n">>, [i \in 1..Len(data) |-> data[i].name])>>
                ELSE <<MsgNoContacts>>
    /\ UNCHANGED <<phones, recOp, data, bookOp, latest, clock, pc, pending, file>>

\* Choice 4: add_birthday
add_birthday(name_input, dob_input) ==
    /\ pc = "menu"
    /\ LET name == Capitalize(name_input)
           r == Find(data, name)
           b == Birthday(dob_input)
       IN  IF r.outcome # Ok
           THEN shown' = <<MsgNotFound>> /\ UNCHANGED data
           ELSE IF b.outcome # Ok
           THEN shown' = <<MsgError(b.outcome), MsgRetryDate>> /\ UNCHANGED data
           ELSE /\ data' = [data EXCEPT ![IndexOf(data, name)].birthday
                                            = <<b.value>>]
                /\ shown' = <<MsgBirthdaySet>>
    /\ UNCHANGED <<phones, recOp, bookOp, latest, clock, pc, pending, file>>

\* Choice 5: show_birthday; record.birthday.value of a record without a
\* birthday raises AttributeError, which nothing catches.
show_birthday(name_input) ==
    /\ pc = "menu"
    /\ LET r == Find(data, Capitalize(name_input))
       IN  IF r.outcome # Ok
           THEN shown' = <<MsgNotFound>> /\ UNCHANGED pc
           ELSE IF r.ret[1].birthday = <<>>
           THEN shown' = <<Traceback(ErrNoneBirthday)>> /\ pc' = "crashed"
           ELSE shown' = <<r.ret[1].birthday[1]>> /\ UNCHANGED pc
    /\ UNCHANGED <<phones, recOp, data, bookOp, latest, clock, pending, file>>

\* Choice 6: birthdays; the ValueError of get_upcoming_birthdays is not caught.
birthdays ==
    /\ pc = "menu"
    /\ LET r == GetUpcomingBirthdays(data, clock)
       IN  IF r.outcome # Ok
           THEN shown' = <<Traceback(r.outcome)>> /\ pc' = "crashed"
           ELSE /\ shown' =
                     IF Len(r.ret) > 0
                     THEN <<Join(<<"\n">>,
                                 [i \in 1..Len(r.ret) |->
                                     r.ret[i].name \o <<" - ">>
                                       \o r.ret[i].congratulation_date])>>
                     ELSE <<MsgNoBirthdays>>
                /\ UNCHANGED pc
    /\ UNCHANGED <<phones, recOp, data, bookOp, latest, clock, pending, file>>

\* Choice 7: save_data and leave the loop.
exit ==
    /\ pc = "menu"
    /\ file' = <<data>>
    /\ shown' = <<MsgExit>>
    /\ pc' = "exited"
    /\ UNCHANGED <<phones, recOp, data, bookOp, latest, clock, pending>>

\* Any other choice.
wrong_choice ==
    /\ pc = "menu"
    /\ shown' = <<MsgWrongChoice>>
    /\ UNCHANGED <<phones, recOp, data, bookOp, latest, clock, pc, pending, file>>

\* Bot.__init__: load_data() gives an empty AddressBook when the file is
\* absent, and the pickled one otherwise.
SavedBooks ==
    {<<MkRecord(Bob, <<P1>>, <<DateText(15, 6, 1985)>>)>>,
     <<MkRecord(Anna, <<P2>>, <<DateText(1, 1, 1990)>>)>>}

Init ==
    /\ phones = <<>>
    /\ recOp = NoRecOp
    /\ file \in {<<>>} \cup {<<b>> : b \in SavedBooks}
    /\ data = IF file = <<>> THEN <<>> ELSE file[1]
    /\ bookOp = NoBookOp
    /\ latest = NoneAdded
    /\ clock \in {FromOrdinal(TodayFirst), FromOrdinal(TodayFirst + 60)}
    /\ pc = "menu"
    /\ pending = <<>>
    /\ shown = <<>>

Next ==
    \/ \E n \in NameInputs : choose_add(n)
    \/ \E d \in DobInputs : enter_dob(d)
    \/ \E p \in BotPhoneInputs : enter_phone(p)
    \/ \E n \in NameInputs : show_info(n)
    \/ list_all
    \/ \E n \in NameInputs, d \in DobInputs : add_birthday(n, d)
    \/ \E n \in NameInputs : show_birthday(n)
    \/ birthdays
    \/ exit
    \/ wrong_choice

Spec == Init /\ [][Next]_vars

----------------------------------------------------------------------------
(* Properties of the Record phone list, checked under SpecRecord.          *)

InSeq(ps, p) == \E i \in 1..Len(ps) : ps[i] = p

NoDuplicates(ps) == \A i, j \in 1..Len(ps) : ps[i] = ps[j] => i = j

\* A string of exactly 10 decimal digits 0-9.
IsTenDecimalDigits(s) ==
    Len(s) = 10 /\ \A i \in 1..Len(s) : IsAsciiDigit(s[i])

\* The entries of ps other than a and b, in order.
Others(ps, a, b) ==
    LET Keep(p) == p # a /\ p # b
    IN  SelectSeq(ps, Keep)

\* C4: every stored phone is a string of exactly 10 decimal digits; add_phone
\* succeeds exactly for such strings, and otherwise fails with the 10-digits
\* error and leaves the list unchanged.
C4_TenDecimalDigits ==
    /\ \A i \in 1..Len(phones) : IsTenDecimalDigits(phones[i])
    /\ recOp.op = "add_phone" =>
          /\ recOp.outcome = Ok <=> IsTenDecimalDigits(recOp.arg)
          /\ recOp.outcome # Ok =>
                recOp.outcome = ErrTenDigits /\ phones = recOp.pre

\* C5 as stated: no two entries of the phone list are equal.
C5_PhonesUnique == NoDuplicates(phones)

\* C5 as amended: a duplicate-free list stays duplicate-free through
\* remove_phone, and through add_phone / edit_phone unless the call appends a
\* phone that is already in the list, in which case the list holds it twice;
\* remove_phone(p) leaves no entry equal to p.
C5_DuplicatesOnlyByAppend ==
    /\ recOp.op = "remove_phone" =>
          /\ ~InSeq(phones, recOp.arg)
          /\ NoDuplicates(recOp.pre) => NoDuplicates(phones)
    /\ recOp.op = "add_phone" /\ NoDuplicates(recOp.pre) =>
          (NoDuplicates(phones) <=>
              ~(recOp.outcome = Ok /\ InSeq(recOp.pre, recOp.arg)))
    /\ recOp.op = "edit_phone" /\ NoDuplicates(recOp.pre) =>
          (NoDuplicates(phones) <=>
              ~(/\ recOp.outcome = Ok
                /\ recOp.arg2 # recOp.arg
                /\ InSeq(recOp.pre, recOp.arg2)))

\* An add_phone of a phone already stored succeeded: the list holds it twice.
C5_Witness ==
    /\ recOp.op = "add_phone"
    /\ recOp.outcome = Ok
    /\ InSeq(recOp.pre, recOp.arg)
    /\ ~NoDuplicates(phones)

----------------------------------------------------------------------------
(* Properties of get_upcoming_birthdays, checked under SpecBirthdays.      *)

\* The date a congratulation_date text "YYYY.MM.DD" denotes.
DateOfText(s) ==
    MkDate(DigitsToNat(SubSeq(s, 1, 4)), DigitsToNat(SubSeq(s, 6, 7)),
           DigitsToNat(SubSeq(s, 9, 10)))

\* The month and day of a stored birthday text "DD.MM.YYYY".
BirthMonth(value) == DigitsToNat(SubSeq(value, 4, 5))
BirthDay(value) == DigitsToNat(SubSeq(value, 1, 2))

\* The year the next occurrence of a month/day falls in: today's year, or
\* the year after when the month/day is strictly before today's.
OccurrenceYear(value, today) ==
    IF \/ BirthMonth(value) < today.month
       \/ BirthMonth(value) = today.month /\ BirthDay(value) < today.day
    THEN today.year + 1
    ELSE today.year

\* Whether the month/day exists in today's year and in the occurrence year.
OccurrenceExists(value, today) ==
    /\ IsDate(today.year, BirthMonth(value), BirthDay(value))
    /\ IsDate(OccurrenceYear(value, today), BirthMonth(value), BirthDay(value))

NextOccurrence(value, today) ==
    MkDate(OccurrenceYear(value, today), BirthMonth(value), BirthDay(value))

DaysUntil(value, today) ==
    ToOrdinal(NextOccurrence(value, today)) - ToOrdinal(today)

Returned(name) ==
    \E k \in 1..Len(bookOp.ret) : bookOp.ret[k].name = name

\* C1: get_upcoming_birthdays returns an entry for a record exactly when the
\* record has a birthday whose next occurrence is 0 to 7 days after today
\* (stated for the records whose month/day exists in the years concerned).
C1_ReturnedIffInWindow ==
    bookOp.op = "get_upcoming_birthdays" =>
        \A i \in 1..Len(data) :
            LET r == data[i]
            IN  /\ r.birthday = <<>> => ~Returned(r.name)
                /\ ( /\ r.birthday # <<>>
                     /\ OccurrenceExists(r.birthday[1], bookOp.today) ) =>
                      /\ DaysUntil(r.birthday[1], bookOp.today) >= 0
                      /\ Returned(r.name) <=>
                            DaysUntil(r.birthday[1], bookOp.today) \in 0..7

\* C1 in the calls that return: the same equivalence, whenever no record of
\* the directory makes the call raise.
C1_WhenTheCallReturns ==
    (bookOp.op = "get_upcoming_birthdays" /\ bookOp.outcome = Ok) =>
        C1_ReturnedIffInWindow

\* C2: a returned congratulation date is the next occurrence of the birthday
\* when that is a Monday to Friday and the first Monday after it when it is
\* a Saturday or Sunday; it is never a Saturday or Sunday and never before
\* today.
C2_CongratulationDate ==
    bookOp.op = "get_upcoming_birthdays" =>
        \A k \in 1..Len(bookOp.ret) :
            LET e == bookOp.ret[k]
                r == data[IndexOf(data, e.name)]
                occ == ToOrdinal(NextOccurrence(r.birthday[1], bookOp.today))
                wd == (occ + 6) % 7
                cd == ToOrdinal(DateOfText(e.congratulation_date))
            IN  /\ HasKey(data, e.name)
                /\ Len(e.congratulation_date) = 10
                /\ Strftime(DateOfText(e.congratulation_date))
                      = e.congratulation_date
                /\ wd <= 4 => cd = occ
                /\ wd = 5 => cd = occ + 2
                /\ wd = 6 => cd = occ + 1
                /\ (cd + 6) % 7 \in 0..4
                /\ cd >= ToOrdinal(bookOp.today)

\* A birthday on Sunday 31 December whose congratulation date is Monday
\* 1 January of the next year.
C2_Witness ==
    /\ bookOp.op = "get_upcoming_birthdays"
    /\ bookOp.outcome = Ok
    /\ \E k \in 1..Len(bookOp.ret) :
          /\ Weekday(NextOccurrence(
                 data[IndexOf(data, bookOp.ret[k].name)].birthday[1],
                 bookOp.today)) = 6
          /\ DateOfText(bookOp.ret[k].congratulation_date).year
                = bookOp.today.year + 1

\* C3: get_upcoming_birthdays never raises, whatever the directory and today.
C3_NeverRaises ==
    bookOp.op = "get_upcoming_birthdays" => bookOp.outcome = Ok

----------------------------------------------------------------------------
(* Properties of add_record, find and delete, checked under SpecBook.      *)

\* C8: add_record(r) stores r under r.name, replacing the record stored
\* under that name and leaving every other entry unchanged; each name maps
\* to at most one record, and find(name) returns the record most recently
\* added under that name.
C8_AddRecordOverwrites ==
    /\ \A i, j \in 1..Len(data) : data[i].name = data[j].name => i = j
    /\ \A n \in Names :
          latest[n] # <<>> =>
              Find(data, n) = [outcome |-> Ok, ret |-> latest[n]]
    /\ bookOp.op = "find" /\ latest[bookOp.name] # <<>> =>
          bookOp.outcome = Ok /\ bookOp.ret = latest[bookOp.name]
    /\ bookOp.op = "add_record" =>
          /\ Find(data, bookOp.record.name).ret = <<bookOp.record>>
          /\ \A n \in Names \ {bookOp.record.name} :
                Find(data, n) = Find(bookOp.pre, n)
          /\ Len(data) = Len(bookOp.pre)
                + (IF HasKey(bookOp.pre, bookOp.record.name) THEN 0 ELSE 1)

\* add_record replaced a different record of the same name while another
\* name was stored too.
C8_Witness ==
    /\ bookOp.op = "add_record"
    /\ HasKey(bookOp.pre, bookOp.record.name)
    /\ Find(bookOp.pre, bookOp.record.name).ret # <<bookOp.record>>
    /\ Len(data) = 2

\* C9: delete(name) of a name not stored fails with the not-found error and
\* leaves the directory unchanged; of a name stored it removes exactly that
\* entry, and find(name) then fails with the not-found error until a record
\* of that name is added again.
C9_Delete ==
    /\ bookOp.op = "delete" =>
          /\ ~HasKey(bookOp.pre, bookOp.name) =>
                bookOp.outcome = ErrContactNotFound /\ data = bookOp.pre
          /\ HasKey(bookOp.pre, bookOp.name) =>
                /\ bookOp.outcome = Ok
                /\ Len(data) = Len(bookOp.pre) - 1
                /\ \A n \in Names \ {bookOp.name} :
                      Find(data, n) = Find(bookOp.pre, n)
    /\ \A n \in Names :
          latest[n] = <<>> => Find(data, n).outcome = ErrContactNotFound
    /\ bookOp.op = "find" /\ latest[bookOp.name] = <<>> =>
          bookOp.outcome = ErrContactNotFound

\* delete removed a stored name and left the other entry.
C9_Witness ==
    /\ bookOp.op = "delete"
    /\ bookOp.outcome = Ok
    /\ HasKey(bookOp.pre, bookOp.name)
    /\ Len(data) = 1

----------------------------------------------------------------------------
(* Properties of the add-contact flow, checked under Spec.                 *)

\* C10: in the add-contact flow an invalid phone number is recoverable: the
\* error is shown and the phone is asked for again, the menu loop does not
\* end because of it, and every contact in the address book has been given
\* a valid phone.
C10_InvalidPhoneRecoverable ==
    /\ ( /\ pending # <<>>
         /\ pending.phone # <<>>
         /\ ~IsTenDecimalDigits(pending.phone[1]) ) =>
            /\ pc = "phone"
            /\ Len(shown) > 0
            /\ shown[1] = MsgError(ErrTenDigits)
    /\ pc = "crashed" => shown # <<Traceback(ErrTenDigits)>>
    /\ \A i \in 1..Len(data) :
          /\ Len(data[i].phones) > 0
          /\ \A k \in 1..Len(data[i].phones) :
                IsTenDecimalDigits(data[i].phones[k])

====
